---- MODULE Spec2Model ----
(***************************************************************************)
(* Model of app.py, the Streamlit laptop price predictor.                  *)
(*                                                                         *)
(* Streamlit executes the whole script from the top on every interaction,  *)
(* in a fresh namespace: the three pickled artifacts are loaded, the form  *)
(* widgets are declared (their values are kept by the session), and when   *)
(* the Predict button was pressed the handler under `if st.button(...)`    *)
(* runs.  One action of the model is one whole run of the script.          *)
(*                                                                         *)
(* Labels are numbered in their sorted order (a LabelEncoder's classes_ is *)
(* sorted), one-decimal inputs (Weight, Inches, CPU_freq) are counted in   *)
(* tenths.                                                                 *)
(***************************************************************************)
EXTENDS Integers, Sequences, FiniteSets, TLC

VARIABLES
    files,        \* status of each artifact file: "ok", "missing" or "corrupt"
    disk,         \* what each artifact file unpickles to
    artifacts,    \* the names model / encoders / feature_columns bound by the load
    pc,           \* "start", "stopped" (st.stop() was called) or "form"
    widgets,      \* the session's widget values, by the script's variable names
    submitted,    \* st.button(...) returned True in the last run
    assembled,    \* << >>, or << input_dict >> of the last run
    predictArgs,  \* the arguments model.predict was called with in the last run
    prediction,   \* << >> while the name `prediction` is unbound, else << value >>
    exc,          \* the exception raised inside the handler's try block
    uncaught,     \* the exception that left the script, or "none"
    display       \* the elements the last run put on the page, in order

vars == <<files, disk, artifacts, pc, widgets, submitted, assembled,
          predictArgs, prediction, exc, uncaught, display>>

-----------------------------------------------------------------------------
(* Bounds of the model *)

\* A session's widgets differ from their initial values in at most this many fields.
MaxEdits == 1

\* feature_columns.pkl holds the columns of input_dict in its order, the reordered list below, or any
\* list of at most this many of SchemaNames.
MaxSchemaLen == 1

-----------------------------------------------------------------------------
(* Names *)

ArtifactNames == <<"model", "encoders", "feature_columns">>

\* The keys of encoders used by the script.
CatKeys == {"Company", "TypeName", "OS", "Screen", "CPU_company", "CPU_model",
            "PrimaryStorageType", "SecondaryStorageType", "GPU_company", "GPU_model"}

\* The script variable holding the label that is encoded under each key.
CatWidget == [k \in CatKeys |-> IF k = "Screen" THEN "ScreenType" ELSE k]

CatWidgets == {CatWidget[k] : k \in CatKeys}

\* The key each selectbox takes its options from.
OptionsKey == [w \in CatWidgets |-> IF w = "ScreenType" THEN "Screen" ELSE w]

Flags == {"Touchscreen", "RetinaDisplay", "IPSpanel"}

RadioOptions == <<"No", "Yes">>

\* st.number_input declarations: min_value, max_value, value.
NumberInputs ==
    [Ram              |-> [min |-> 2,   max |-> 64,   value |-> 8],
     Weight           |-> [min |-> 5,   max |-> 50,   value |-> 15],
     Inches           |-> [min |-> 100, max |-> 200,  value |-> 156],
     ScreenW          |-> [min |-> 800, max |-> 4000, value |-> 1920],
     ScreenH          |-> [min |-> 600, max |-> 4000, value |-> 1080],
     CPU_freq         |-> [min |-> 10,  max |-> 50,   value |-> 25],
     PrimaryStorage   |-> [min |-> 0,   max |-> 4096, value |-> 512],
     SecondaryStorage |-> [min |-> 0,   max |-> 4096, value |-> 0]]

Numerics == DOMAIN NumberInputs

WidgetNames == CatWidgets \cup Flags \cup Numerics

\* The keys of input_dict.
RecordKeys == CatKeys \cup Flags \cup Numerics

\* The column order of input_dict.
InputDictColumns ==
    <<"Company", "TypeName", "OS", "Screen", "CPU_company", "CPU_model",
      "PrimaryStorageType", "SecondaryStorageType", "GPU_company", "GPU_model",
      "Touchscreen", "RetinaDisplay", "IPSpanel", "Inches", "Weight", "Ram",
      "CPU_freq", "ScreenW", "ScreenH", "PrimaryStorage", "SecondaryStorage">>

-----------------------------------------------------------------------------
(* The artifact files *)

Labels == {1, 2, 3}

\* encoders.pkl: a dict of fitted LabelEncoders, here each by its classes_.
EncoderChoices ==
    { [k \in CatKeys |-> {1, 2}],
      [k \in CatKeys |-> IF k = "Company" THEN {1, 3} ELSE {2, 3}] }

\* A stored schema in another order than input_dict's, without most of its keys
\* and with a column input_dict does not have.
OtherColumns == <<"Ram", "Extra", "Company", "Touchscreen">>

\* The names the short schemas are drawn from: a categorical and a numeric key
\* of input_dict, and a column input_dict does not have.
SchemaNames == {"Company", "Ram", "Extra"}

SeqsUpTo(S, n) == UNION { [1..m -> S] : m \in 0..n }

\* feature_columns.pkl
SchemaChoices ==
    {InputDictColumns, OtherColumns} \cup SeqsUpTo(SchemaNames, MaxSchemaLen)

\* laptop_price_model.pkl: the fitted regressor, opaque to the script.
ModelChoices == {"regressor"}

DiskChoices == [model : ModelChoices, encoders : EncoderChoices,
                feature_columns : SchemaChoices]

FileStatus == {"ok", "missing", "corrupt"}

-----------------------------------------------------------------------------
(* Lines 9-23: loading the artifacts *)

\* Mutant of LoadOk: only the first file's load is checked.
LoadOkModelOnly(f) == f[ArtifactNames[1]] = "ok"

\* No open() and no pickle.load() raised.
LoadOk(f) == \A i \in DOMAIN ArtifactNames : f[ArtifactNames[i]] = "ok"

\* The position in the loading order of the first file that raises.
FirstFailure(f) ==
    CHOOSE i \in DOMAIN ArtifactNames :
        /\ f[ArtifactNames[i]] # "ok"
        /\ \A j \in 1..(i - 1) : f[ArtifactNames[j]] = "ok"

\* The except clause that takes the failure: FileNotFoundError, else Exception.
LoadErrorMessage(f) ==
    IF f[ArtifactNames[FirstFailure(f)]] = "missing"
    THEN "load_error_not_found"
    ELSE "load_error_other"

\* The names the try block bound before it raised.
BoundBeforeFailure(f, d) ==
    [n \in {ArtifactNames[j] : j \in 1..(FirstFailure(f) - 1)} |-> d[n]]

-----------------------------------------------------------------------------
(* Lines 34-102: the form *)

\* Mutant of get_options: the key is ignored, every selectbox lists the
\* Company encoder's classes.
get_options_company(enc, feature_key) == enc["Company"]

\* get_options(feature_key)
get_options(enc, feature_key) == enc[feature_key]

Min(S) == CHOOSE x \in S : \A y \in S : x <= y

\* A selectbox starts on its first option, a radio on its first option, a
\* number_input on its value= argument.
InitialWidgets(enc) ==
    [w \in WidgetNames |->
        IF w \in CatWidgets THEN Min(get_options(enc, OptionsKey[w]))
        ELSE IF w \in Flags THEN RadioOptions[1]
        ELSE NumberInputs[w].value]

\* Mutant of NumberInput: the entry is kept whatever it is.
NumberInputUnchecked(min, max, old, typed) == typed

\* st.number_input keeps an entry only when it lies in [min_value, max_value].
NumberInput(min, max, old, typed) ==
    IF min <= typed /\ typed <= max THEN typed ELSE old

\* What the user may type into a number_input: the bounds, and one past each.
Typed(w) == {NumberInputs[w].min - 1, NumberInputs[w].min,
             NumberInputs[w].max, NumberInputs[w].max + 1}

Changed(w, enc) ==
    Cardinality({n \in WidgetNames : w[n] # InitialWidgets(enc)[n]})

-----------------------------------------------------------------------------
(* Lines 106-159: the Predict handler *)

\* Mutant of FreshNamespace: the name survives from the run before.
StaleNamespace == prediction

\* The value of the name `prediction` when a run of the script begins: every
\* run executes in a new namespace.
FreshNamespace == << >>

\* Mutant of Known: an unseen label is encoded like any other.
KnownAlways(classes, label) == TRUE

\* LabelEncoder.transform raises ValueError on a label outside classes_.
Known(classes, label) == label \in classes

\* LabelEncoder.transform: the label's position in the sorted classes_.
Transform(classes, label) == Cardinality({c \in classes : c < label})

\* Mutant of AfterTransform: fit_transform() refits each encoder on the one label.
AfterFitTransform(enc, w) == [k \in CatKeys |-> {w[CatWidget[k]]}]

\* transform() leaves the encoders as they were fitted.
AfterTransform(enc, w) == enc

\* Mutant of FlagCode: the test is on the other option.
FlagCodeSwapped(choice) == IF choice = "No" THEN 1 ELSE 0

\* 1 if X == "Yes" else 0
FlagCode(choice) == IF choice = "Yes" THEN 1 ELSE 0

\* input_dict
InputDict(enc, w) ==
    [k \in RecordKeys |->
        IF k \in CatKeys THEN Transform(enc[k], w[CatWidget[k]])
        ELSE IF k \in Flags THEN FlagCode(w[k])
        ELSE w[k]]

\* Mutant of Reindex: the schema's columns are selected without fill_value, so
\* a column input_dict lacks is left out.
ReindexNoFill(record, columns) ==
    LET present == SelectSeq(columns, LAMBDA c : c \in DOMAIN record)
    IN  [i \in DOMAIN present |-> [name |-> present[i], value |-> record[present[i]]]]

\* pd.DataFrame([input_dict]).reindex(columns=feature_columns, fill_value=0):
\* the single row, as its (column, value) cells in column order.
Reindex(record, columns) ==
    [i \in DOMAIN columns |->
        [name  |-> columns[i],
         value |-> IF columns[i] \in DOMAIN record THEN record[columns[i]] ELSE 0]]

\* model.predict(input_df)[0] either returns or raises; the regressor is opaque,
\* so its result is kept as the application of the model to its argument.
PredictOutcomes == {"ok", "ValueError", "Exception"}

Predicted(mdl, input_df) == [model |-> mdl, input |-> input_df]

\* except ValueError / except Exception
ExceptMessage(type) ==
    IF type = "ValueError" THEN "encoder_error" ELSE "unexpected_error"

Element(kind) == [kind |-> kind]

Price(value) == [kind |-> "price", value |-> value]

NoException == [at |-> "none", type |-> "none"]

\* The try block, lines 109-156.
TryBlock(art, w, out, ns) ==
    LET enc        == art.encoders
        input_dict == InputDict(enc, w)
        input_df   == Reindex(input_dict, art.feature_columns)
        value      == Predicted(art.model, input_df)
    IN  IF \E k \in CatKeys : ~Known(enc[k], w[CatWidget[k]])
        THEN [assembled |-> << >>, predictArgs |-> << >>, prediction |-> ns,
              exc   |-> [at |-> "encode", type |-> "ValueError"],
              shown |-> <<Element(ExceptMessage("ValueError"))>>]
        ELSE IF out = "ok"
        THEN [assembled |-> <<input_dict>>, predictArgs |-> <<input_df>>,
              prediction |-> <<value>>,
              exc   |-> NoException,
              shown |-> <<Element("balloons"), Price(value)>>]
        ELSE [assembled |-> <<input_dict>>, predictArgs |-> <<input_df>>,
              prediction |-> ns,
              exc   |-> [at |-> "predict", type |-> out],
              shown |-> <<Element(ExceptMessage(out))>>]

\* Line 159, after the try statement: st.write of `prediction`, which raises
\* NameError when the name is unbound.
Handler(art, w, out, ns) ==
    LET t == TryBlock(art, w, out, ns)
    IN  IF t.prediction # << >>
        THEN [t EXCEPT !.shown = Append(@, Price(t.prediction[1]))]
                 @@ [uncaught |-> "none"]
        ELSE [t EXCEPT !.shown = Append(@, Element("exception"))]
                 @@ [uncaught |-> "NameError"]

-----------------------------------------------------------------------------
(* The state machine: one action is one run of the script *)

NoWidgets == << >>

Init ==
    /\ files \in [{ArtifactNames[i] : i \in DOMAIN ArtifactNames} -> FileStatus]
    /\ disk \in DiskChoices
    /\ artifacts = << >>
    /\ pc = "start"
    /\ widgets = NoWidgets
    /\ submitted = FALSE
    /\ assembled = << >>
    /\ predictArgs = << >>
    /\ prediction = << >>
    /\ exc = NoException
    /\ uncaught = "none"
    /\ display = << >>

\* A run in which the button was not pressed leaves the form on the page.
NoSubmission ==
    /\ submitted' = FALSE
    /\ assembled' = << >>
    /\ predictArgs' = << >>
    /\ prediction' = FreshNamespace
    /\ exc' = NoException
    /\ uncaught' = "none"

\* A run with no widget on the page yet: the first run of a session, or a rerun
\* after st.stop().
ScriptRun ==
    /\ pc \in {"start", "stopped"}
    /\ IF LoadOk(files)
       THEN /\ artifacts' = disk
            /\ widgets' = InitialWidgets(disk.encoders)
            /\ display' = <<Element("form")>>
            /\ pc' = "form"
       ELSE /\ artifacts' = BoundBeforeFailure(files, disk)
            /\ display' = <<Element(LoadErrorMessage(files))>>
            /\ pc' = "stopped"
            /\ UNCHANGED widgets
    /\ NoSubmission
    /\ UNCHANGED <<files, disk>>

\* The rerun after a widget changed: artifacts reloaded, form declared again.
Rerun(w) ==
    /\ pc = "form"
    /\ LoadOk(files)
    /\ Changed(w, disk.encoders) <= MaxEdits
    /\ artifacts' = disk
    /\ widgets' = w
    /\ display' = <<Element("form")>>
    /\ NoSubmission
    /\ UNCHANGED <<files, disk, pc>>

SelectLabel ==
    /\ pc = "form"
    /\ \E w \in CatWidgets :
          \E label \in get_options(artifacts.encoders, OptionsKey[w]) :
              Rerun([widgets EXCEPT ![w] = label])

ChooseFlag ==
    /\ pc = "form"
    /\ \E w \in Flags :
          \E i \in DOMAIN RadioOptions :
              Rerun([widgets EXCEPT ![w] = RadioOptions[i]])

TypeNumber ==
    /\ pc = "form"
    /\ \E w \in Numerics :
          \E typed \in Typed(w) :
              Rerun([widgets EXCEPT ![w] =
                        NumberInput(NumberInputs[w].min, NumberInputs[w].max, @, typed)])

\* The rerun after the Predict button was pressed.
PredictClick ==
    /\ pc = "form"
    /\ LoadOk(files)
    /\ \E out \in PredictOutcomes :
          LET r == Handler(disk, widgets, out, FreshNamespace)
          IN  /\ assembled' = r.assembled
              /\ predictArgs' = r.predictArgs
              /\ prediction' = r.prediction
              /\ exc' = r.exc
              /\ uncaught' = r.uncaught
              /\ display' = <<Element("form")>> \o r.shown
    /\ artifacts' = [disk EXCEPT !.encoders = AfterTransform(@, widgets)]
    /\ submitted' = TRUE
    /\ UNCHANGED <<files, disk, pc, widgets>>

Next == ScriptRun \/ SelectLabel \/ ChooseFlag \/ TypeNumber \/ PredictClick

Spec == Init /\ [][Next]_vars

-----------------------------------------------------------------------------
(* The handler on an arbitrary raw record: the labels are supplied directly, *)
(* not picked from a selectbox.                                              *)

InitRaw ==
    /\ files = [n \in {ArtifactNames[i] : i \in DOMAIN ArtifactNames} |-> "ok"]
    /\ disk \in DiskChoices
    /\ artifacts = disk
    /\ pc = "form"
    /\ widgets = InitialWidgets(disk.encoders)
    /\ submitted = FALSE
    /\ assembled = << >>
    /\ predictArgs = << >>
    /\ prediction = << >>
    /\ exc = NoException
    /\ uncaught = "none"
    /\ display = <<Element("form")>>

SupplyLabel ==
    /\ pc = "form"
    /\ \E w \in CatWidgets :
          \E label \in Labels :
              Rerun([widgets EXCEPT ![w] = label])

NextRaw == SupplyLabel \/ PredictClick

SpecRaw == InitRaw /\ [][NextRaw]_vars

-----------------------------------------------------------------------------
(* Properties *)

Shown(kind) == \E i \in DOMAIN display : display[i].kind = kind

PriceShown == Shown("price")

ErrorShown == Shown("encoder_error") \/ Shown("unexpected_error")

UnknownLabel == \E k \in CatKeys : widgets[CatWidget[k]] \notin artifacts.encoders[k]

Range(s) == {s[i] : i \in DOMAIN s}

\* C1: when every label of a submission is known to its encoder, model.predict
\* is called with one row that has exactly the schema's columns in schema order;
\* a column input_dict has keeps input_dict's value, a column it lacks is 0, and
\* no column outside the schema is present.
C1_VectorFollowsSchema ==
    (pc = "form" /\ submitted /\ ~UnknownLabel) =>
        /\ Len(assembled) = 1
        /\ Len(predictArgs) = 1
        /\ LET record == assembled[1]
               row    == predictArgs[1]
               cols   == artifacts.feature_columns
           IN  /\ Len(row) = Len(cols)
               /\ \A i \in DOMAIN cols :
                     /\ row[i].name = cols[i]
                     /\ cols[i] \in DOMAIN record => row[i].value = record[cols[i]]
                     /\ cols[i] \notin DOMAIN record => row[i].value = 0
               /\ \A i \in DOMAIN row : row[i].name \in Range(cols)

\* A submission under the reordered schema, Ram set to 64: the Ram column comes
\* first with 64, the column input_dict lacks is 0.
C1_Witness ==
    /\ pc = "form" /\ submitted
    /\ artifacts.feature_columns = OtherColumns
    /\ Len(predictArgs) = 1
    /\ predictArgs[1][1] = [name |-> "Ram", value |-> 64]
    /\ predictArgs[1][2] = [name |-> "Extra", value |-> 0]
    /\ Len(predictArgs[1]) < Cardinality(DOMAIN assembled[1])

\* C2: a submission with a label outside its encoder's vocabulary fails with the
\* unrecognized-category condition: no feature vector, no call of model.predict,
\* and the unrecognized-label message on the page.
C2_UnknownLabelFails ==
    (pc = "form" /\ submitted /\ UnknownLabel) =>
        /\ assembled = << >>
        /\ predictArgs = << >>
        /\ exc = [at |-> "encode", type |-> "ValueError"]
        /\ Shown("encoder_error")
        /\ ~PriceShown

\* A submission whose only unknown label is the last one encoded.
C2_Witness ==
    /\ pc = "form" /\ submitted
    /\ widgets["GPU_model"] \notin artifacts.encoders["GPU_model"]
    /\ \A k \in CatKeys \ {"GPU_model"} : widgets[CatWidget[k]] \in artifacts.encoders[k]
    /\ Shown("encoder_error")

\* C3: no error raised while handling a submission leaves the handler: each ends
\* in an error message and the run ends without an uncaught exception.
C3_NoErrorEscapes ==
    (pc = "form" /\ submitted /\ exc.at # "none") =>
        /\ ErrorShown
        /\ uncaught = "none"

\* C4: any exception of model.predict is reported with the generic message, and
\* the unrecognized-category message appears only for a label outside its
\* encoder's vocabulary.
C4_ErrorsClassified ==
    (pc = "form" /\ submitted) =>
        /\ exc.at = "predict" => Shown("unexpected_error")
        /\ Shown("encoder_error") => UnknownLabel

\* C5: when an artifact is missing or fails to load, a load error is shown and
\* the run halts: no form, no submission, no call of model.predict.
C5_LoadFailureHalts ==
    ((\E i \in DOMAIN ArtifactNames : files[ArtifactNames[i]] # "ok") /\ pc # "start") =>
        /\ pc = "stopped"
        /\ Shown("load_error_not_found") \/ Shown("load_error_other")
        /\ ~Shown("form")
        /\ ~submitted
        /\ predictArgs = << >>
        /\ ~ENABLED PredictClick

\* The model loaded, encoders.pkl is missing.
C5_Witness ==
    /\ pc = "stopped"
    /\ files["model"] = "ok"
    /\ files["encoders"] = "missing"
    /\ DOMAIN artifacts = {"model"}
    /\ Shown("load_error_not_found")

\* C6: a price is on the page only after a submission whose prediction
\* succeeded, and it is the prediction for that submission's inputs; after a
\* failed submission an error message is on the page and no price is.
C6_PriceOnlyOnSuccess ==
    /\ \A i \in DOMAIN display :
          display[i].kind = "price" =>
              /\ pc = "form" /\ submitted /\ exc.at = "none"
              /\ display[i].value =
                    Predicted(artifacts.model,
                              Reindex(InputDict(artifacts.encoders, widgets),
                                      artifacts.feature_columns))
    /\ (submitted /\ exc.at # "none") => (ErrorShown /\ ~PriceShown)

\* A submission whose model.predict raised.
C6_Witness ==
    /\ pc = "form" /\ submitted
    /\ exc.at = "predict"
    /\ ErrorShown
    /\ ~PriceShown

\* C7: every numeric value that reaches input_dict lies in its field's declared
\* domain (one-decimal fields in tenths).
C7_NumericsInDomain ==
    /\ pc = "form" => widgets["Ram"] \in 2..64
    /\ \A i \in DOMAIN assembled :
          /\ assembled[i]["Ram"] \in 2..64
          /\ assembled[i]["Weight"] \in 5..50
          /\ assembled[i]["Inches"] \in 100..200
          /\ assembled[i]["ScreenW"] \in 800..4000
          /\ assembled[i]["ScreenH"] \in 600..4000
          /\ assembled[i]["CPU_freq"] \in 10..50
          /\ assembled[i]["PrimaryStorage"] \in 0..4096
          /\ assembled[i]["SecondaryStorage"] \in 0..4096

\* A record assembled with Ram at its upper bound.
C7_Witness ==
    /\ Len(assembled) = 1
    /\ assembled[1]["Ram"] = 64

\* C8: in every assembled record each flag is 1 exactly when its radio is on
\* "Yes" and 0 exactly when it is on "No".
C8_FlagsAreChoices ==
    \A i \in DOMAIN assembled :
        \A f \in Flags :
            /\ assembled[i][f] \in {0, 1}
            /\ assembled[i][f] = 1 <=> widgets[f] = "Yes"
            /\ assembled[i][f] = 0 <=> widgets[f] = "No"

\* A record assembled with one flag on "Yes" and another on "No".
C8_Witness ==
    /\ Len(assembled) = 1
    /\ widgets["Touchscreen"] = "Yes" /\ assembled[1]["Touchscreen"] = 1
    /\ widgets["IPSpanel"] = "No" /\ assembled[1]["IPSpanel"] = 0

\* C9: once loaded, the model, every encoder's classes and the schema stay what
\* the artifact files hold, through any sequence of submissions.
C9_ArtifactsUnchanged ==
    pc = "form" =>
        /\ artifacts.model = disk.model
        /\ artifacts.encoders = disk.encoders
        /\ artifacts.feature_columns = disk.feature_columns

\* After a submission that assembled a record and called model.predict.
C9_Witness ==
    /\ pc = "form" /\ submitted
    /\ Len(predictArgs) = 1
    /\ artifacts.encoders = disk.encoders

\* C10: every label the form holds is one of its own encoder's classes, and no
\* submission made through the form fails in encoding.
C10_FormLabelsKnown ==
    pc = "form" =>
        /\ \A k \in CatKeys : widgets[CatWidget[k]] \in artifacts.encoders[k]
        /\ exc.at # "encode"

\* A submission with a label the user picked, other than the selectbox's first.
C10_Witness ==
    /\ pc = "form" /\ submitted
    /\ widgets["GPU_model"] # Min(artifacts.encoders["GPU_model"])
    /\ Len(assembled) = 1
    /\ assembled[1]["GPU_model"] = 1

====
